---- MODULE Spec2Model ----
(***************************************************************************)
(* Model of the private-shares-banner plugin (src/__init__.py): the        *)
(* per-peer moderation state machine driven by the host client's           *)
(* callbacks.  The host collaborators (user browse store, watch list,      *)
(* network filter, upload queues, private chat) are modelled at the        *)
(* interface the plugin uses.                                              *)
(***************************************************************************)
EXTENDS Integers, Sequences, FiniteSets, TLC

(* ------------------------------ bounds --------------------------------- *)
MaxTime == 60
MaxPending == 2
MaxPrivate == 2
MaxTransfers == 1

(* --------------------------- program constants ------------------------- *)
Cooldown == 30
None == -1

\* config.sections["server"]["login"]: the engine's own identity
Login == "me"
\* the identities of the model: the engine's own and a remote peer's
Identities == {Login, "alice"}

\* class UserState (None is the state of a freshly constructed User)
RequestedShares == "RequestedShares"
HasPrivateShares == "HasPrivateShares"
NoPrivateShares == "NoPrivateShares"
NoState == "None"
UserState == {RequestedShares, HasPrivateShares, NoPrivateShares}

\* class CheckReason
Search == "Search"
DistributedSearch == "DistributedSearch"
PrivateChat == "PrivateChat"
UploadQueued == "UploadQueued"
UploadStarted == "UploadStarted"
CheckReason == {Search, DistributedSearch, PrivateChat, UploadQueued, UploadStarted}

\* User.__init__
User == [state |-> NoState, requested_shares |-> None,
         sent_message |-> FALSE, emit_logs |-> FALSE]

\* BrowsedUser(username) / BrowsedUser.clear(): an empty listing buffer
BrowsedUser == [num_folders |-> None, num_files |-> None, private_folders |-> 0]

(* ------------------------------ strings -------------------------------- *)
\* A string is a sequence of characters over {"a", " ", "\n"}.
IsSpace(c) == c \in {" ", "\n"}

RECURSIVE LStrip(_)
LStrip(s) == IF s # <<>> /\ IsSpace(Head(s)) THEN LStrip(Tail(s)) ELSE s

RECURSIVE RStrip(_)
RStrip(s) ==
    IF s # <<>> /\ IsSpace(s[Len(s)]) THEN RStrip(SubSeq(s, 1, Len(s) - 1)) ELSE s

\* str.strip()
Strip(s) == RStrip(LStrip(s))

\* str.splitlines(): lines end at "\n"; no empty last line after a final "\n"
RECURSIVE SplitLinesFrom(_, _)
SplitLinesFrom(s, cur) ==
    IF s = <<>> THEN (IF cur = <<>> THEN <<>> ELSE <<cur>>)
    ELSE IF Head(s) = "\n" THEN <<cur>> \o SplitLinesFrom(Tail(s), <<>>)
    ELSE SplitLinesFrom(Tail(s), Append(cur, Head(s)))

SplitLines(s) == SplitLinesFrom(s, <<>>)

\* the values the "message" setting takes in the model
Messages == { <<" ", "\n", " ">>,
              <<"a", " ", "\n", "\n", "a">> }

VARIABLES
    now,           \* datetime.now(timezone.utc), in seconds
    settings,      \* Plugin.settings
    users,         \* Plugin.users (defaultdict(User)): a function on the keys present
    browse,        \* core.userbrowse.users: a function on the keys present
    pending,       \* listing requests sent and not yet answered, per identity
    watched,       \* core.users watch list under the plugin's context
    banned,        \* core.network_filter ban list
    calls,         \* collaborator calls made by the last handler, in order
    logs,          \* log lines written by the last handler, in order
    raised,        \* the exception the last handler ended with, or "none"
    enforced,      \* the identities ban_user was entered for by the last handler
    last,          \* the last handler, the identity it was called for and, for
                   \* a listing response, the listing
    enabled        \* the plugin is enabled (init() has run, disable() has not)

vars == <<now, settings, users, browse, pending, watched, banned, calls, logs,
          raised, enforced, last, enabled>>

(* ----------------------- the state a handler works on ------------------ *)
\* The mutable state as a record, so that a handler is a function from the
\* state before it to the state after it and handlers compose as in the code.
Cur == [users |-> users, browse |-> browse, pending |-> pending,
        watched |-> watched, banned |-> banned,
        settings |-> settings, calls |-> <<>>, logs |-> <<>>, raised |-> "none",
        enforced |-> <<>>]

Commit(s) ==
    /\ users' = s.users
    /\ browse' = s.browse
    /\ pending' = s.pending
    /\ watched' = s.watched
    /\ banned' = s.banned
    /\ settings' = s.settings
    /\ calls' = s.calls
    /\ logs' = s.logs
    /\ raised' = s.raised
    /\ enforced' = s.enforced

Call(s, c) == [s EXCEPT !.calls = Append(@, c)]
Log(s, l) == [s EXCEPT !.logs = Append(@, l)]

\* self.users[username] on a defaultdict(User): a missing key is created
Touch(s, u) ==
    IF u \in DOMAIN s.users THEN s
    ELSE [s EXCEPT !.users = [x \in DOMAIN s.users \cup {u} |->
                                 IF x = u THEN User ELSE s.users[x]]]

\* SetUser on attributes shared by every User object
SetUser_All(s, u, rec) == [s EXCEPT !.users = [x \in DOMAIN @ |-> rec]]

SetUser(s, u, rec) == [s EXCEPT !.users[u] = rec]

\* the record a lookup would give, without creating it
Peer(u) == IF u \in DOMAIN users THEN users[u] ELSE User

(* ------------------------------ Plugin --------------------------------- *)
\* check_message testing the message without strip(): a message of blanks
\* counts as a message
check_message_NoStrip(s) ==
    IF s.settings.send_message /\ s.settings.message = <<>>
    THEN Log([s EXCEPT !.settings.send_message = FALSE], <<"message is empty">>)
    ELSE s

\* Plugin.check_message: the state after the call; its return value is
\* settings["send_message"] of that state
check_message(s) ==
    IF s.settings.send_message /\ Strip(s.settings.message) = <<>>
    THEN Log([s EXCEPT !.settings.send_message = FALSE], <<"message is empty">>)
    ELSE s

\* should_request_shares without the cooldown: an outstanding request is
\* repeated on every trigger
should_request_shares_NoCooldown(user, t) ==
    user.state = NoState \/ user.state = RequestedShares

\* should_request_shares without the retry: an outstanding request is never
\* repeated
should_request_shares_Once(user, t) == user.state = NoState

\* should_request_shares with > for >=: no retry at exactly 30 seconds
should_request_shares_Strict(user, t) ==
    \/ user.state = NoState
    \/ /\ user.state = RequestedShares
       /\ \/ user.requested_shares = None
          \/ t - user.requested_shares > Cooldown

\* User.should_request_shares: the return value
should_request_shares(user, t) ==
    \/ user.state = NoState
    \/ /\ user.state = RequestedShares
       /\ \/ user.requested_shares = None
          \/ t - user.requested_shares >= Cooldown

\* User.should_request_shares: the record after the call
after_should_request_shares(user, t) ==
    IF should_request_shares(user, t)
    THEN [user EXCEPT !.state = RequestedShares, !.requested_shares = t]
    ELSE user

\* ban_user_block without the is_user_banned test
ban_user_block_Always(s, u) ==
    Log(Call([s EXCEPT !.banned = @ \cup {u}], <<"ban_user", u>>),
        <<"banned user", u>>)

\* ban_user, the lines on the network filter: block u unless already blocked
ban_user_block(s, u) ==
    IF u \in s.banned
    THEN (IF s.users[u].emit_logs THEN Log(s, <<"already banned", u>>) ELSE s)
    ELSE Log(Call([s EXCEPT !.banned = @ \cup {u}], <<"ban_user", u>>),
             <<"banned user", u>>)

\* the loop of ban_user over one of the three upload queues
abort_queue(s, u, q, n) ==
    [s EXCEPT !.calls = @ \o [i \in 1..n |-> <<"_abort_transfer", u, q>>]]

\* ban_user, the lines on the uploads: abort every transfer to u
ban_user_abort(s, u, uploads) ==
    LET s1 == abort_queue(abort_queue(abort_queue(s, u, "queued", uploads.queued),
                                      u, "active", uploads.active),
                          u, "failed", uploads.failed)
        aborted_transfers == uploads.queued + uploads.active + uploads.failed
    IN  IF aborted_transfers # 0
        THEN Log(s1, <<"aborted transfers", u, aborted_transfers>>) ELSE s1

\* ban_user_message without the sent_message test
ban_user_message_Again(s, u) ==
    LET user == s.users[u]
        s1 == check_message(s)
        lines == SplitLines(s1.settings.message)
    IN  IF s1.settings.send_message
        THEN [SetUser(s1, u, [user EXCEPT !.sent_message = TRUE])
                EXCEPT !.calls = @ \o [i \in 1..Len(lines) |->
                    <<"send_private", u, RStrip(lines[i]),
                      s1.settings.open_private_chat>>]]
        ELSE s1

\* ban_user, the lines on the message: send it unless it was sent before
ban_user_message(s, u) ==
    LET user == s.users[u]
        s1 == IF user.sent_message THEN s ELSE check_message(s)
        lines == SplitLines(s1.settings.message)
    IN  IF ~user.sent_message /\ s1.settings.send_message
        THEN [SetUser(s1, u, [user EXCEPT !.sent_message = TRUE])
                EXCEPT !.calls = @ \o [i \in 1..Len(lines) |->
                    <<"send_private", u, RStrip(lines[i]),
                      s1.settings.open_private_chat>>]]
        ELSE s1

\* Plugin.ban_user; uploads gives the number of transfers to u that
\* core.uploads.queued_users, active_users and failed_users hold at the call
ban_user(s, u, uploads) ==
    ban_user_message(
        ban_user_abort(
            ban_user_block([s EXCEPT !.enforced = Append(@, u)], u), u, uploads), u)

\* is_download without UploadStarted
is_download_QueuedOnly(reason) == reason = UploadQueued

\* check_user: the reasons on which a banned user is banned again
is_download(reason) == reason = UploadQueued \/ reason = UploadStarted

\* request_shares without the watch_user call
request_shares_NoWatch(s, u, reason) ==
    LET s1 == IF s.users[u].emit_logs
              THEN Log(s, <<"requesting user shares", u, reason>>) ELSE s
        s2 == IF u \in DOMAIN s1.browse THEN s1
              ELSE [s1 EXCEPT !.browse =
                      [x \in DOMAIN s1.browse \cup {u} |->
                         IF x = u THEN BrowsedUser ELSE s1.browse[x]]]
    IN  Call([s2 EXCEPT !.pending[u] = @ + 1], <<"request_user_shares", u>>)

\* request_shares issuing the watch and the request only where it logs
request_shares_WhenLogged(s, u, reason) ==
    IF ~s.users[u].emit_logs THEN s
    ELSE LET s1 == Log(s, <<"requesting user shares", u, reason>>)
             s2 == IF u \in DOMAIN s1.browse THEN s1
                   ELSE [s1 EXCEPT !.browse =
                           [x \in DOMAIN s1.browse \cup {u} |->
                              IF x = u THEN BrowsedUser ELSE s1.browse[x]]]
             s3 == Call([s2 EXCEPT !.watched = @ \cup {u}], <<"watch_user", u>>)
         IN  Call([s3 EXCEPT !.pending[u] = @ + 1], <<"request_user_shares", u>>)

\* check_user, the lines that request the shares of u
request_shares(s, u, reason) ==
    LET s1 == IF s.users[u].emit_logs
              THEN Log(s, <<"requesting user shares", u, reason>>) ELSE s
        s2 == IF u \in DOMAIN s1.browse THEN s1
              ELSE [s1 EXCEPT !.browse =
                      [x \in DOMAIN s1.browse \cup {u} |->
                         IF x = u THEN BrowsedUser ELSE s1.browse[x]]]
        s3 == Call([s2 EXCEPT !.watched = @ \cup {u}], <<"watch_user", u>>)
    IN  Call([s3 EXCEPT !.pending[u] = @ + 1], <<"request_user_shares", u>>)

\* check_user with NoPrivateShares re-evaluated once the cooldown has elapsed
check_user_Reevaluate(s, u, reason, t, uploads) ==
    LET s0 == Touch(s, u)
        u0 == s0.users[u]
        user == IF s0.settings.verbose \/ reason # DistributedSearch
                THEN [u0 EXCEPT !.emit_logs = TRUE] ELSE u0
        s1 == SetUser(s0, u, user)
        again == /\ user.state = NoPrivateShares
                 /\ user.requested_shares # None
                 /\ t - user.requested_shares >= Cooldown
    IN  IF user.state = NoPrivateShares /\ ~again THEN s1
        ELSE IF user.state = HasPrivateShares
        THEN IF is_download(reason)
             THEN ban_user(Log(s1, <<"banned user tried to download", u, reason>>), u,
                           uploads)
             ELSE s1
        ELSE IF again \/ should_request_shares(user, t)
        THEN request_shares(
                 SetUser(s1, u, [user EXCEPT !.state = RequestedShares,
                                             !.requested_shares = t]), u, reason)
        ELSE s1

\* check_user banning on a download also a user whose listing was requested
\* and has not given a verdict
check_user_BanPending(s, u, reason, t, uploads) ==
    LET s0 == Touch(s, u)
        u0 == s0.users[u]
        user == IF s0.settings.verbose \/ reason # DistributedSearch
                THEN [u0 EXCEPT !.emit_logs = TRUE] ELSE u0
        s1 == SetUser(s0, u, user)
    IN  IF user.state = NoPrivateShares THEN s1
        ELSE IF user.state = HasPrivateShares
                \/ (user.state = RequestedShares /\ is_download(reason))
        THEN IF is_download(reason)
             THEN ban_user(Log(s1, <<"banned user tried to download", u, reason>>), u,
                           uploads)
             ELSE s1
        ELSE IF should_request_shares(user, t)
        THEN request_shares(SetUser(s1, u, after_should_request_shares(user, t)),
                            u, reason)
        ELSE s1

\* Plugin.check_user
check_user(s, u, reason, t, uploads) ==
    LET s0 == Touch(s, u)
        u0 == s0.users[u]
        user == IF s0.settings.verbose \/ reason # DistributedSearch
                THEN [u0 EXCEPT !.emit_logs = TRUE] ELSE u0
        s1 == SetUser(s0, u, user)
    IN  IF user.state = NoPrivateShares THEN s1
        ELSE IF user.state = HasPrivateShares
        THEN IF is_download(reason)
             THEN ban_user(Log(s1, <<"banned user tried to download", u, reason>>), u,
                           uploads)
             ELSE s1
        ELSE IF should_request_shares(user, t)
        THEN request_shares(SetUser(s1, u, after_should_request_shares(user, t)),
                            u, reason)
        ELSE s1

\* shares_are_None with "and" for "or"
shares_are_None_Both(browsed_user) ==
    browsed_user.num_folders = None /\ browsed_user.num_files = None

\* check_shares: the listing lacks the folder count or the file count
shares_are_None(browsed_user) ==
    browsed_user.num_folders = None \/ browsed_user.num_files = None

\* no_private_folders off by one: a single private folder is tolerated
no_private_folders_OffByOne(browsed_user) == browsed_user.private_folders <= 1

\* check_shares: the listing has no private folder
no_private_folders(browsed_user) == browsed_user.private_folders = 0

\* release_listing without the unwatch_user call
release_listing_KeepWatch(s, u) ==
    Call([s EXCEPT !.browse[u] = BrowsedUser], <<"clear", u>>)

\* check_shares, its last two lines: release the watch, clear the listing
release_listing(s, u) ==
    LET s1 == Call([s EXCEPT !.watched = @ \ {u}], <<"unwatch_user", u>>)
    IN  Call([s1 EXCEPT !.browse[u] = BrowsedUser], <<"clear", u>>)

\* Plugin.check_shares
check_shares(s, u, uploads) ==
    IF u \notin DOMAIN s.browse THEN [s EXCEPT !.raised = "KeyError"]
    ELSE
    LET browsed_user == s.browse[u]
    IN  IF shares_are_None(browsed_user)
        THEN Log(s, <<"shares are None", u>>)
        ELSE
        LET s0 == Touch(s, u)
            user == s0.users[u]
            s1 == IF no_private_folders(browsed_user)
                  THEN LET a == SetUser(s0, u, [user EXCEPT !.state = NoPrivateShares])
                       IN  IF user.emit_logs
                           THEN Log(a, <<"no private shares", u>>) ELSE a
                  ELSE LET a == IF user.emit_logs
                                THEN Log(s0, <<"has private shares", u>>) ELSE s0
                           b == SetUser(a, u, [user EXCEPT !.state = HasPrivateShares])
                           c == ban_user(b, u, uploads)
                       IN  IF c.settings.save_shares
                           THEN Call(c, <<"json.dump", u>>) ELSE c
        IN  release_listing(s1, u)

\* should_unwatch testing for the wrong state
should_unwatch_Flagged(user) == user.state = HasPrivateShares

\* disable: the users whose watch is released
should_unwatch(user) == user.state = RequestedShares

\* Plugin.disable; the lookup of a user the browse store does not hold
\* raises KeyError and ends the loop
RECURSIVE disable_users(_, _)
disable_users(s, todo) ==
    IF todo = {} THEN s
    ELSE LET u == CHOOSE x \in todo : TRUE
         IN  IF ~should_unwatch(s.users[u]) THEN disable_users(s, todo \ {u})
             ELSE LET s1 == Call([s EXCEPT !.watched = @ \ {u}],
                                 <<"unwatch_user", u>>)
                  IN  IF u \notin DOMAIN s1.browse
                      THEN [s1 EXCEPT !.raised = "KeyError"]
                      ELSE disable_users(
                               Call([s1 EXCEPT !.browse[u] = BrowsedUser],
                                    <<"clear", u>>), todo \ {u})

\* init without sent_message = True for the banned users
init_NotNotified(cfg, banlist) ==
    LET s == check_message(
                [users |-> << >>, browse |-> << >>,
                 pending |-> [u \in Identities |-> 0],
                 watched |-> {}, banned |-> banlist,
                 settings |-> cfg, calls |-> <<>>, logs |-> <<>>,
                 raised |-> "none", enforced |-> <<>>])
    IN  [s EXCEPT !.users = [u \in {Login} \cup banlist |->
            IF u \in banlist
            THEN [User EXCEPT !.state = HasPrivateShares]
            ELSE [User EXCEPT !.state = NoPrivateShares]]]

\* Plugin.init, run on the state Plugin.__init__ and the loaded settings leave
init(cfg, banlist) ==
    LET s == check_message(
                [users |-> << >>, browse |-> << >>,
                 pending |-> [u \in Identities |-> 0],
                 watched |-> {}, banned |-> banlist,
                 settings |-> cfg, calls |-> <<>>, logs |-> <<>>,
                 raised |-> "none", enforced |-> <<>>])
    IN  [s EXCEPT !.users = [u \in {Login} \cup banlist |->
            IF u \in banlist
            THEN [User EXCEPT !.state = HasPrivateShares, !.sent_message = TRUE]
            ELSE [User EXCEPT !.state = NoPrivateShares]]]

(* --------------------------- the host's inputs ------------------------- *)
\* the settings the user may have saved; save_shares (a file written next
\* to the log folder) and open_private_chat (an argument of send_private)
\* keep their defaults
Settings ==
    [verbose : BOOLEAN, save_shares : {FALSE}, check_distributed_search : BOOLEAN,
     send_message : BOOLEAN, open_private_chat : {TRUE}, message : Messages]

\* the listings a peer may answer with: complete ones, and ones that lack
\* the folder count or the file count
Listings ==
    {[num_folders |-> p, num_files |-> p, private_folders |-> p] : p \in 0..MaxPrivate}
    \cup {[num_folders |-> None, num_files |-> 1, private_folders |-> 1],
          [num_folders |-> 1, num_files |-> None, private_folders |-> 1]}

\* what the three upload queues may hold for a user when a handler runs
Uploads == {q \in [queued : 0..MaxTransfers, active : 0..MaxTransfers,
                    failed : 0..MaxTransfers] :
               q.queued + q.active + q.failed <= MaxTransfers}
NoUploads == [queued |-> 0, active |-> 0, failed |-> 0]
\* the queues are read by ban_user only: a handler that does not enter it
\* behaves the same whatever they hold
UploadsRead(s) == IF s.enforced = <<>> THEN {NoUploads} ELSE Uploads

Init ==
    /\ now = 0
    /\ enabled = TRUE
    /\ last = <<"init", Login>>
    \* config.sections["server"]["banlist"] holds remote identities; it is
    \* the list core.network_filter answers is_user_banned from
    /\ \E cfg \in Settings, banlist \in SUBSET (Identities \ {Login}) :
         LET s == init(cfg, banlist)
         IN  /\ users = s.users
             /\ browse = s.browse
             /\ pending = s.pending
             /\ watched = s.watched
             /\ banned = s.banned
             /\ settings = s.settings
             /\ calls = s.calls
             /\ logs = s.logs
             /\ raised = s.raised
             /\ enforced = s.enforced

(* ------------------------------ actions -------------------------------- *)
\* a handler that ends in check_user
Trigger(op, u, reason) ==
    /\ enabled
    /\ \E uploads \in UploadsRead(check_user(Cur, u, reason, now, NoUploads)) :
         LET s == check_user(Cur, u, reason, now, uploads)
         IN  /\ s.pending[u] <= MaxPending
             /\ Commit(s)
    /\ last' = <<op, u>>
    /\ UNCHANGED <<now, enabled>>

search_request_notification(u) ==
    Trigger("search_request_notification", u, Search)

\* distrib_search_notification without the check_distributed_search test
distrib_search_notification_Unchecked(u) ==
    Trigger("distrib_search_notification", u, DistributedSearch)

distrib_search_notification(u) ==
    IF settings.check_distributed_search
    THEN Trigger("distrib_search_notification", u, DistributedSearch)
    ELSE /\ enabled
         /\ Commit(Cur)
         /\ last' = <<"distrib_search_notification", u>>
         /\ UNCHANGED <<now, enabled>>

incoming_private_chat_event(u) ==
    Trigger("incoming_private_chat_event", u, PrivateChat)

upload_queued_notification(u) ==
    Trigger("upload_queued_notification", u, UploadQueued)

upload_started_notification(u) ==
    Trigger("upload_started_notification", u, UploadStarted)

\* Plugin.user_stats_notification on the state s
user_stats_notification(s, u, source, uploads) ==
    IF source # "peer" THEN s ELSE check_shares(s, u, uploads)

\* the host reports statistics of a user without a new listing
UserStats(u, source) ==
    /\ enabled
    /\ \E uploads \in UploadsRead(user_stats_notification(Cur, u, source, NoUploads)) :
         Commit(user_stats_notification(Cur, u, source, uploads))
    /\ last' = <<"user_stats_notification", u>>
    /\ UNCHANGED <<now, enabled>>

\* a peer answers a listing request: the host stores the listing in the
\* user's BrowsedUser and reports the peer's statistics
ListingResponse(u, listing) ==
    /\ enabled
    /\ pending[u] > 0
    /\ u \in DOMAIN browse
    /\ LET s == [Cur EXCEPT !.pending[u] = @ - 1, !.browse[u] = listing]
       IN  \E uploads \in UploadsRead(user_stats_notification(s, u, "peer", NoUploads)) :
             Commit(user_stats_notification(s, u, "peer", uploads))
    /\ last' = <<"listing_response", u, listing>>
    /\ UNCHANGED <<now, enabled>>

\* the user edits the message settings in the preferences, after the plugin
\* was enabled and before the first event
SettingsEdited(send, msg) ==
    /\ enabled
    /\ last[1] = "init"
    /\ settings' = [settings EXCEPT !.send_message = send, !.message = msg]
    /\ settings' # settings
    /\ calls' = <<>> /\ logs' = <<>> /\ raised' = "none" /\ enforced' = <<>>
    /\ last' = <<"settings_edited", Login>>
    /\ UNCHANGED <<now, users, browse, pending, watched, banned, enabled>>

\* time passes, by one second less than the cooldown or by the cooldown, so
\* that a trigger may come 0, 29, 30 or more seconds after a request
Tick(d) ==
    /\ enabled
    /\ now + d <= MaxTime
    /\ now' = now + d
    /\ calls' = <<>> /\ logs' = <<>> /\ raised' = "none" /\ enforced' = <<>>
    /\ last' = <<"tick", Login>>
    /\ UNCHANGED <<settings, users, browse, pending, watched, banned, enabled>>

Disable ==
    /\ enabled
    /\ Commit(disable_users(Cur, DOMAIN users))
    /\ enabled' = FALSE
    /\ last' = <<"disable", Login>>
    /\ UNCHANGED now

Next ==
    \/ \E u \in Identities : search_request_notification(u)
    \/ \E u \in Identities : distrib_search_notification(u)
    \/ \E u \in Identities : incoming_private_chat_event(u)
    \/ \E u \in Identities : upload_queued_notification(u)
    \/ \E u \in Identities : upload_started_notification(u)
    \/ \E u \in Identities, source \in {"peer", "server"} : UserStats(u, source)
    \/ \E u \in Identities, listing \in Listings : ListingResponse(u, listing)
    \/ \E send \in BOOLEAN, msg \in Messages : SettingsEdited(send, msg)
    \/ \E d \in {Cooldown - 1, Cooldown} : Tick(d)
    \/ Disable

Spec == Init /\ [][Next]_vars

(* ------------------------- vocabulary of the claims -------------------- *)
TriggerOps == {"search_request_notification", "distrib_search_notification",
               "incoming_private_chat_event", "upload_queued_notification",
               "upload_started_notification"}
UploadOps == {"upload_queued_notification", "upload_started_notification"}

\* the step is an event hook called for u
EventStep(u) == last'[1] \in TriggerOps /\ last'[2] = u

\* the step is a trigger for u: an event hook that reaches check_user
TriggerStep(u) ==
    /\ EventStep(u)
    /\ last'[1] = "distrib_search_notification" => settings.check_distributed_search

Count(seq, x) == Cardinality({i \in DOMAIN seq : seq[i] = x})
Watch(u) == <<"watch_user", u>>
Request(u) == <<"request_user_shares", u>>
Block(u) == <<"ban_user", u>>
\* the private messages sent to u, in order
RECURSIVE Sends(_, _)
Sends(seq, u) ==
    IF seq = <<>> THEN <<>>
    ELSE IF Head(seq)[1] = "send_private" /\ Head(seq)[2] = u
         THEN <<Head(seq)>> \o Sends(Tail(seq), u)
         ELSE Sends(Tail(seq), u)
Complete(listing) == listing.num_folders # None /\ listing.num_files # None

(* ------------------------------- claims -------------------------------- *)
\* C1: the first trigger for a peer in state Unknown sets its state to
\* RequestedShares with requested_shares = now and issues exactly one watch
\* followed by exactly one listing request; a trigger for a peer in
\* RequestedShares fewer than 30 seconds after requested_shares issues no
\* call and leaves state and requested_shares unchanged.
C1_SingleOutstandingRequest ==
    [][\A u \in Identities : TriggerStep(u) =>
        /\ Peer(u).state = NoState =>
              /\ Peer(u)'.state = RequestedShares
              /\ Peer(u)'.requested_shares = now
              /\ calls' = <<Watch(u), Request(u)>>
              /\ pending'[u] = pending[u] + 1
        /\ ( /\ Peer(u).state = RequestedShares
             /\ Peer(u).requested_shares # None
             /\ now - Peer(u).requested_shares < Cooldown ) =>
              /\ calls' = <<>>
              /\ pending' = pending
              /\ Peer(u)'.state = RequestedShares
              /\ Peer(u)'.requested_shares = Peer(u).requested_shares]_vars

\* a trigger arrived for alice 29 seconds after her listing was requested
\* and was ignored
C1_Witness ==
    /\ last[1] \in TriggerOps /\ last[2] = "alice"
    /\ Peer("alice").state = RequestedShares
    /\ now - Peer("alice").requested_shares = Cooldown - 1
    /\ pending["alice"] = 1
    /\ calls = <<>>

\* C2: for a peer in RequestedShares, a trigger at least 30 seconds after
\* requested_shares (exactly 30 included) issues exactly one more listing
\* request and sets requested_shares to the time of the trigger; a trigger
\* before that issues no request.
C2_CooldownRetry ==
    [][\A u \in Identities :
        ( /\ TriggerStep(u)
          /\ Peer(u).state = RequestedShares
          /\ Peer(u).requested_shares # None ) =>
        IF now - Peer(u).requested_shares >= Cooldown
        THEN /\ Count(calls', Request(u)) = 1
             /\ pending'[u] = pending[u] + 1
             /\ Peer(u)'.state = RequestedShares
             /\ Peer(u)'.requested_shares = now
        ELSE /\ Count(calls', Request(u)) = 0
             /\ pending' = pending
             /\ Peer(u)'.requested_shares = Peer(u).requested_shares]_vars

\* alice's listing was requested a second time exactly 30 seconds after the
\* first request, which is still unanswered
C2_Witness ==
    /\ last[1] \in TriggerOps /\ last[2] = "alice"
    /\ now = Cooldown
    /\ Peer("alice").state = RequestedShares
    /\ Peer("alice").requested_shares = now
    /\ pending["alice"] = 2
    /\ Count(calls, Request("alice")) = 1

\* C3: a listing result with folder count and file count present leaves the
\* peer NoPrivateShares when it has no private folder, without entering
\* ban_user, and HasPrivateShares when it has one or more, entering ban_user
\* exactly once.
C3_VerdictCorrectness ==
    [][\A u \in Identities, listing \in Listings :
        (last' = <<"listing_response", u, listing>> /\ Complete(listing)) =>
        IF listing.private_folders = 0
        THEN Peer(u)'.state = NoPrivateShares /\ enforced' = <<>>
        ELSE Peer(u)'.state = HasPrivateShares /\ enforced' = <<u>>]_vars

\* a listing with private folders has just flagged alice
C3_Witness ==
    /\ last[1] = "listing_response" /\ last[2] = "alice"
    /\ Peer("alice").state = HasPrivateShares
    /\ enforced = <<"alice">>
    /\ Block("alice") \in {calls[i] : i \in DOMAIN calls}

\* C4: block(u) is issued only for a u the network filter does not report as
\* blocked, once, and the filter never unblocks, so that it is issued at most
\* once per identity; enforcement of a blocked identity issues no block call
\* and ends without an exception.
C4_BlockAtMostOnce ==
    [][\A u \in Identities :
        /\ u \in banned => u \in banned'
        /\ Count(calls', Block(u)) > 0 =>
              /\ Count(calls', Block(u)) = 1
              /\ u \notin banned
              /\ u \in banned'
        /\ (u \in banned /\ Count(enforced', u) > 0) =>
              /\ Count(calls', Block(u)) = 0
              /\ raised' = "none"]_vars

\* alice, flagged and blocked after an investigation, was enforced again on
\* an upload attempt with no transfer in the queues
C4_Witness ==
    /\ last[1] \in UploadOps /\ last[2] = "alice"
    /\ Peer("alice").requested_shares # None
    /\ enforced = <<"alice">>
    /\ "alice" \in banned
    /\ \A i \in DOMAIN calls : calls[i][1] \notin {"ban_user", "_abort_transfer"}
    /\ raised = "none"

\* C5: sent_message is never reset; private messages are sent to u only in a
\* step that takes sent_message from false to true, and that step sends the
\* lines of the message, each stripped of trailing whitespace.
C5_NotifyAtMostOnce ==
    [][\A u \in Identities :
        /\ Peer(u).sent_message => Peer(u)'.sent_message
        /\ Sends(calls', u) # <<>> =>
              ~Peer(u).sent_message /\ Peer(u)'.sent_message
        /\ (~Peer(u).sent_message /\ Peer(u)'.sent_message) =>
              /\ Sends(calls', u) # <<>>
              /\ Sends(calls', u) =
                    [i \in 1..Len(SplitLines(settings.message)) |->
                       <<"send_private", u, RStrip(SplitLines(settings.message)[i]),
                         settings.open_private_chat>>]]_vars

\* alice, notified when she was flagged, was enforced again and no message
\* was sent
C5_Witness ==
    /\ last[1] \in UploadOps /\ last[2] = "alice"
    /\ Peer("alice").requested_shares # None
    /\ settings.send_message
    /\ Peer("alice").sent_message
    /\ enforced = <<"alice">>
    /\ Sends(calls, "alice") = <<>>

\* C6: once a peer's state is HasPrivateShares no step changes it.
C6_FlaggedTerminal ==
    [][\A u \in Identities :
        Peer(u).state = HasPrivateShares => Peer(u)'.state = HasPrivateShares]_vars

\* C7: for a peer in HasPrivateShares a Search, PrivateChat or
\* DistributedSearch event issues no call, enters ban_user not at all and
\* leaves state, requested_shares and sent_message unchanged; an UploadQueued
\* or UploadStarted event enters ban_user once and issues no watch and no
\* listing request.
C7_FlaggedTriggers ==
    [][\A u \in Identities :
        (EventStep(u) /\ Peer(u).state = HasPrivateShares) =>
        /\ Count(calls', Request(u)) = 0
        /\ Count(calls', Watch(u)) = 0
        /\ pending' = pending
        /\ watched' = watched
        /\ Peer(u)'.state = HasPrivateShares
        /\ Peer(u)'.requested_shares = Peer(u).requested_shares
        /\ IF last'[1] \in UploadOps
           THEN enforced' = <<u>>
           ELSE /\ enforced' = <<>>
                /\ calls' = <<>>
                /\ banned' = banned
                /\ Peer(u)'.sent_message = Peer(u).sent_message]_vars

\* flagged alice started an upload and ban_user was entered for her
C7_Witness ==
    /\ last = <<"upload_started_notification", "alice">>
    /\ Peer("alice").state = HasPrivateShares
    /\ enforced = <<"alice">>
    /\ Count(calls, Request("alice")) = 0

PreSeeded(u) ==
    u = Login \/ (u \in DOMAIN users /\ users[u].requested_shares = None)

\* C9: the state of a peer that was not seeded at startup changes only from
\* None to RequestedShares and from RequestedShares to NoPrivateShares or
\* HasPrivateShares.
C9_StateOrder ==
    [][\A u \in Identities :
        (~PreSeeded(u) /\ Peer(u)'.state # Peer(u).state) =>
        \/ Peer(u).state = NoState /\ Peer(u)'.state = RequestedShares
        \/ /\ Peer(u).state = RequestedShares
           /\ Peer(u)'.state \in {NoPrivateShares, HasPrivateShares}]_vars

\* C10: a listing result that lacks the folder count or the file count, and
\* a statistics callback that finds such a listing, change no user record
\* and enter ban_user not at all; a peer in RequestedShares stays eligible
\* for a request 30 seconds after requested_shares.
C10_IncompleteListing ==
    [][\A u \in Identities :
        ( \/ \E listing \in Listings :
                last' = <<"listing_response", u, listing>> /\ ~Complete(listing)
          \/ /\ last' = <<"user_stats_notification", u>>
             /\ u \in DOMAIN browse
             /\ ~Complete(browse[u]) ) =>
        /\ users' = users
        /\ enforced' = <<>>
        /\ banned' = banned
        /\ Peer(u).state = RequestedShares =>
              should_request_shares(Peer(u)', Peer(u).requested_shares + Cooldown)]_vars

\* a listing with private folders and no file count arrived for alice, who
\* stays in RequestedShares
C10_Witness ==
    /\ last[1] = "listing_response" /\ last[2] = "alice"
    /\ last[3].num_files = None /\ last[3].private_folders > 0
    /\ Peer("alice").state = RequestedShares
    /\ enforced = <<>>
    /\ "alice" \notin banned

\* C11: with check_distributed_search off a distributed-search event changes
\* no user record (none is created) and issues no call; with it on the event
\* leaves the state, requested_shares, watch list, pending requests and the
\* watch and request calls that check_user gives for a Search trigger.
C11_DistributedSearch ==
    [][\A u \in Identities : last' = <<"distrib_search_notification", u>> =>
        IF ~settings.check_distributed_search
        THEN /\ users' = users
             /\ calls' = <<>>
             /\ pending' = pending
             /\ watched' = watched
             /\ browse' = browse
        ELSE LET s == check_user(Cur, u, Search, now, NoUploads)
             IN  /\ Peer(u)'.state = s.users[u].state
                 /\ Peer(u)'.requested_shares = s.users[u].requested_shares
                 /\ Count(calls', Watch(u)) = Count(s.calls, Watch(u))
                 /\ Count(calls', Request(u)) = Count(s.calls, Request(u))
                 /\ watched' = s.watched
                 /\ pending' = s.pending
                 /\ browse' = s.browse]_vars

\* a distributed search by alice, unknown, was ignored
C11_Witness ==
    /\ last = <<"distrib_search_notification", "alice">>
    /\ ~settings.check_distributed_search
    /\ "alice" \notin DOMAIN users
    /\ calls = <<>>

Unwatch(u) == <<"unwatch_user", u>>
Clear(u) == <<"clear", u>>

\* C12 as stated: whatever the listing delivered for u (incomplete, without
\* or with private folders), after the callback u is not watched and its
\* listing buffer is empty.
C12_AlwaysReleased ==
    [][\A u \in Identities, listing \in Listings :
        last' = <<"listing_response", u, listing>> =>
        /\ u \notin watched'
        /\ browse'[u] = BrowsedUser]_vars

\* C12 amended: a listing with both counts ends with one unwatch_user and
\* one clear call, u not watched and its buffer empty; a listing that lacks
\* a count leaves the watch list as it was, keeps the listing in the buffer
\* and issues no call.
C12_ReleasedOnVerdict ==
    [][\A u \in Identities, listing \in Listings :
        last' = <<"listing_response", u, listing>> =>
        IF Complete(listing)
        THEN /\ u \notin watched'
             /\ browse'[u] = BrowsedUser
             /\ Count(calls', Unwatch(u)) = 1
             /\ Count(calls', Clear(u)) = 1
             /\ Len(calls') >= 2
             /\ calls'[Len(calls') - 1] = Unwatch(u)
             /\ calls'[Len(calls')] = Clear(u)
        ELSE /\ watched' = watched
             /\ browse'[u] = listing
             /\ calls' = <<>>]_vars

\* a listing without private folders cleared alice: her watch is released
\* and her buffer is empty
C12_Witness ==
    /\ last[1] = "listing_response" /\ last[2] = "alice"
    /\ Complete(last[3])
    /\ Peer("alice").state = NoPrivateShares
    /\ "alice" \notin watched
    /\ browse["alice"] = BrowsedUser
    /\ calls = <<Unwatch("alice"), Clear("alice")>>

\* C13: disable issues one unwatch_user for every identity whose state is
\* RequestedShares and none for any other, and leaves no identity watched.
C13_DisableUnwatches ==
    [][last' = <<"disable", Login>> =>
        /\ \A u \in Identities :
              Count(calls', Unwatch(u)) =
                  (IF Peer(u).state = RequestedShares THEN 1 ELSE 0)
        /\ watched' = {}]_vars

\* the plugin was disabled while alice's listing was requested, and her
\* watch was released
C13_Witness ==
    /\ ~enabled
    /\ last = <<"disable", Login>>
    /\ Peer("alice").state = RequestedShares
    /\ Count(calls, Unwatch("alice")) = 1
    /\ watched = {}

\* the identities of the ban list Plugin.init read
PreBanned(u) == u # Login /\ PreSeeded(u)

Blank(msg) == \A i \in DOMAIN msg : msg[i] \in {" ", "\n"}
Aborts(seq, u) == Cardinality({i \in DOMAIN seq :
                                  seq[i][1] = "_abort_transfer" /\ seq[i][2] = u})

\* C15 as stated: every ban_user that runs with send_message on and a blank
\* message sends nothing, turns send_message off, leaves sent_message of the
\* user false and leaves the user blocked.
C15_BlankMessageAlways ==
    [][\A u \in Identities :
        (Count(enforced', u) > 0 /\ settings.send_message /\ Blank(settings.message)) =>
        /\ Sends(calls', u) = <<>>
        /\ ~settings'.send_message
        /\ ~Peer(u)'.sent_message
        /\ u \in banned']_vars

\* C15 amended: a ban_user that runs with send_message on and a blank message
\* sends nothing and leaves the user blocked, by a block call if the user
\* was not; for a user whose sent_message is false it turns send_message off
\* and leaves sent_message false; for a user whose sent_message is true it
\* leaves send_message on.  No step but an edit of the settings turns
\* send_message on, and private messages are sent only with send_message on.
C15_BlankMessage ==
    [][/\ \A u \in Identities :
            (Count(enforced', u) > 0 /\ settings.send_message
                /\ Blank(settings.message)) =>
            /\ Sends(calls', u) = <<>>
            /\ u \in banned'
            /\ Count(calls', Block(u)) = (IF u \in banned THEN 0 ELSE 1)
            /\ IF Peer(u).sent_message
               THEN settings'.send_message /\ Peer(u)'.sent_message
               ELSE ~settings'.send_message /\ ~Peer(u)'.sent_message
       /\ (~settings.send_message /\ last'[1] # "settings_edited") =>
            ~settings'.send_message
       /\ \A u \in Identities :
            Sends(calls', u) # <<>> =>
                settings.send_message /\ settings'.send_message]_vars

\* a listing flagged alice while send_message was on with a blank message:
\* she was blocked, her transfer aborted, nothing sent, send_message is off
C15_Witness ==
    /\ last[1] = "listing_response" /\ last[2] = "alice"
    /\ enforced = <<"alice">>
    /\ Blank(settings.message)
    /\ ~settings.send_message
    /\ <<"message is empty">> \in {logs[i] : i \in DOMAIN logs}
    /\ ~Peer("alice").sent_message
    /\ Count(calls, Block("alice")) = 1
    /\ Aborts(calls, "alice") = 1
    /\ Sends(calls, "alice") = <<>>

\* the state s without what verbosity is allowed to change: the verbose
\* option, the emit_logs flag of every record and the log lines
Quiet(s) ==
    [s EXCEPT !.settings.verbose = FALSE,
              !.logs = <<>>,
              !.users = [x \in DOMAIN s.users |-> [s.users[x] EXCEPT !.emit_logs = FALSE]]]

\* the states that differ from the current one in verbosity only
Variants ==
    {[Cur EXCEPT !.settings.verbose = v,
                 !.users = [x \in DOMAIN users |-> [users[x] EXCEPT !.emit_logs = e[x]]]] :
        v \in BOOLEAN, e \in [DOMAIN users -> BOOLEAN]}

Reasons == {Search, DistributedSearch, PrivateChat, UploadQueued, UploadStarted}

\* the hook of a reason, as a function on the state
Hook(s, u, reason, uploads) ==
    IF reason = DistributedSearch /\ ~s.settings.check_distributed_search THEN s
    ELSE check_user(s, u, reason, now, uploads)

\* the listing callback, as a function on the state
Listed(s, u, listing, uploads) ==
    user_stats_notification([s EXCEPT !.pending[u] = @ - 1, !.browse[u] = listing],
                            u, "peer", uploads)

\* C16: in every reachable state, every handler fed the same input gives,
\* from the state and from each state that differs from it in the verbose
\* option and the emit_logs flags only, the same records (state,
\* requested_shares, sent_message of every user), the same collaborator
\* calls in the same order and the same remaining state; so two runs fed
\* the same events that differ in verbose only stay equal in all of these.
C16_VerbosityNoEffect ==
    \A u \in Identities :
        /\ \A reason \in Reasons :
             \A q \in UploadsRead(Hook(Cur, u, reason, NoUploads)) :
                LET base == Quiet(Hook(Cur, u, reason, q))
                IN  \A v \in Variants : Quiet(Hook(v, u, reason, q)) = base
        /\ \A q \in UploadsRead(user_stats_notification(Cur, u, "peer", NoUploads)) :
                LET base == Quiet(user_stats_notification(Cur, u, "peer", q))
                IN  \A v \in Variants : Quiet(user_stats_notification(v, u, "peer", q)) = base
        /\ (pending[u] > 0 /\ u \in DOMAIN browse) =>
             \A listing \in Listings :
                \A q \in UploadsRead(Listed(Cur, u, listing, NoUploads)) :
                    LET base == Quiet(Listed(Cur, u, listing, q))
                    IN  \A v \in Variants : Quiet(Listed(v, u, listing, q)) = base
        /\ LET base == Quiet(disable_users(Cur, DOMAIN users))
           IN  \A v \in Variants : Quiet(disable_users(v, DOMAIN users)) = base

\* a distributed search with verbose off asked for alice's listing without a
\* log line, and her record does not emit logs
C16_Witness ==
    /\ last = <<"distrib_search_notification", "alice">>
    /\ ~settings.verbose
    /\ Peer("alice").state = RequestedShares
    /\ ~Peer("alice").emit_logs
    /\ Count(calls, Request("alice")) = 1
    /\ logs = <<>>

(* --------------------- the running plugin, with fairness ---------------- *)
\* A listing callback under the assumption that one of the requests issued
\* for u is answered by a complete listing: within the time the model
\* covers, an incomplete answer leaves another request outstanding or the
\* time for a retry.
LiveListingResponse(u, listing) ==
    /\ Complete(listing) \/ pending[u] >= 2 \/ now + Cooldown <= MaxTime
    /\ ListingResponse(u, listing)

\* a complete listing for u arrives
CompleteListingResponse(u) ==
    \E listing \in Listings : Complete(listing) /\ ListingResponse(u, listing)

\* the settings of Plugin.__init__: every option off, a message of text
DefaultSettings ==
    {cfg \in Settings : /\ ~cfg.verbose
                        /\ ~cfg.check_distributed_search
                        /\ ~cfg.send_message
                        /\ cfg.message = <<"a", " ", "\n", "\n", "a">>}

\* the state after init() with these settings
LiveInit ==
    /\ now = 0
    /\ enabled = TRUE
    /\ last = <<"init", Login>>
    /\ \E cfg \in DefaultSettings, banlist \in SUBSET (Identities \ {Login}) :
         LET s == init(cfg, banlist)
         IN  /\ users = s.users
             /\ browse = s.browse
             /\ pending = s.pending
             /\ watched = s.watched
             /\ banned = s.banned
             /\ settings = s.settings
             /\ calls = s.calls
             /\ logs = s.logs
             /\ raised = s.raised
             /\ enforced = s.enforced

\* the plugin while it stays enabled and its settings are left alone; time
\* passes a cooldown at a time
LiveNext ==
    \/ \E u \in Identities : search_request_notification(u)
    \/ \E u \in Identities : distrib_search_notification(u)
    \/ \E u \in Identities : incoming_private_chat_event(u)
    \/ \E u \in Identities : upload_queued_notification(u)
    \/ \E u \in Identities : upload_started_notification(u)
    \/ \E u \in Identities, source \in {"peer", "server"} : UserStats(u, source)
    \/ \E u \in Identities, listing \in Listings : LiveListingResponse(u, listing)
    \/ Tick(Cooldown)

\* the cooldown expires, searches of every peer keep arriving, and a
\* complete listing that can arrive does arrive
Fairness ==
    /\ WF_vars(Tick(Cooldown))
    /\ \A u \in Identities : WF_vars(search_request_notification(u))
    /\ \A u \in Identities : WF_vars(CompleteListingResponse(u))

LiveSpec == LiveInit /\ [][LiveNext]_vars /\ Fairness

\* C17: under LiveSpec a peer in state RequestedShares eventually is in
\* state NoPrivateShares or HasPrivateShares, also after incomplete listings
\* and answers that did not come before the cooldown expired.
C17_VerdictEventually ==
    \A u \in Identities :
        (Peer(u).state = RequestedShares)
            ~> (Peer(u).state \in {NoPrivateShares, HasPrivateShares})

\* alice's first answer was incomplete; the request repeated after the
\* cooldown was answered by a complete listing and gave the verdict
C17_Witness ==
    /\ last[1] = "listing_response" /\ last[2] = "alice" /\ Complete(last[3])
    /\ Peer("alice").requested_shares = Cooldown
    /\ Peer("alice").state \in {NoPrivateShares, HasPrivateShares}
    /\ pending["alice"] = 0
    /\ now = Cooldown

\* C18: while the plugin is enabled, a user is watched exactly if the state
\* of its record is RequestedShares; a listing callback with an incomplete
\* listing changes neither the watch nor the state.
C18_WatchIffRequested ==
    /\ [](enabled => \A u \in Identities :
                        u \in watched <=> Peer(u).state = RequestedShares)
    /\ [][\A u \in Identities :
            (last'[1] = "listing_response" /\ last'[2] = u /\ ~Complete(last'[3])) =>
            /\ u \in watched' <=> u \in watched
            /\ Peer(u)'.state = Peer(u).state
            /\ Count(calls', Unwatch(u)) = 0]_vars

\* an incomplete listing answered alice's only request: she is still
\* watched and under investigation, and nobody else is watched
C18_Witness ==
    /\ enabled
    /\ last[1] = "listing_response" /\ last[2] = "alice" /\ ~Complete(last[3])
    /\ watched = {"alice"}
    /\ Peer("alice").state = RequestedShares
    /\ pending["alice"] = 0
    /\ calls = <<>>

\* C19: a step that enters ban_user for u, or calls ban_user of the network
\* filter, _abort_transfer or send_private for u, has entered ban_user for u
\* and ends with the state of u HasPrivateShares; a user that is not in that
\* state, the login among them, gets none of these calls.
C19_EnforcedOnlyFlagged ==
    [][\A u \in Identities :
        (\/ Count(enforced', u) > 0
         \/ Count(calls', Block(u)) > 0
         \/ Aborts(calls', u) > 0
         \/ Sends(calls', u) # <<>>) =>
        /\ Count(enforced', u) > 0
        /\ Peer(u)'.state = HasPrivateShares
        /\ u # Login]_vars

\* alice, on the ban list from the start, queued an upload: it was aborted
\* without a new block, and alice's state is HasPrivateShares
C19_Witness ==
    /\ last = <<"upload_queued_notification", "alice">>
    /\ PreBanned("alice")
    /\ Peer("alice").state = HasPrivateShares
    /\ enforced = <<"alice">>
    /\ Aborts(calls, "alice") = 1
    /\ Count(calls, Block("alice")) = 0

(* ------------------------- two remote users at once --------------------- *)
\* a second remote user next to those of Identities
Peers == Identities \cup {"bob"}

\* the settings with every option on and a message of text
FullSettings ==
    {cfg \in Settings : /\ ~cfg.verbose
                        /\ cfg.check_distributed_search
                        /\ cfg.send_message
                        /\ cfg.message = <<"a", " ", "\n", "\n", "a">>}

\* the state after init() with these settings and nobody on the ban list
PeersInit ==
    /\ now = 0
    /\ enabled = TRUE
    /\ last = <<"init", Login>>
    /\ \E cfg \in FullSettings :
         LET s == init(cfg, {})
         IN  /\ users = s.users
             /\ browse = s.browse
             /\ pending = [u \in Peers |-> 0]
             /\ watched = s.watched
             /\ banned = s.banned
             /\ settings = s.settings
             /\ calls = s.calls
             /\ logs = s.logs
             /\ raised = s.raised
             /\ enforced = s.enforced

\* the enabled plugin with searches, uploads, statistics and listings of
\* the login and of two remote users
PeersNext ==
    \/ \E u \in Peers : search_request_notification(u)
    \/ \E u \in Peers : upload_queued_notification(u)
    \/ \E u \in Peers : UserStats(u, "peer")
    \/ \E u \in Peers, listing \in Listings : ListingResponse(u, listing)
    \/ Tick(Cooldown)

PeersSpec == PeersInit /\ [][PeersNext]_vars

\* the step is a callback for a: an event hook, a statistics notification
\* or the answer to a listing request
CallbackStep(a) ==
    /\ last'[1] \in TriggerOps \cup {"user_stats_notification", "listing_response"}
    /\ last'[2] = a

\* C20: a callback for a user a leaves the record of every other user b as
\* it was (none is created or changed), leaves b's watch, block, listing
\* buffer and outstanding requests as they were, and makes no collaborator
\* call for b, whatever callbacks of other users came before.
C20_PeersIndependent ==
    [][\A a \in Peers, b \in Peers :
        (a # b /\ CallbackStep(a)) =>
        /\ b \in DOMAIN users' <=> b \in DOMAIN users
        /\ Peer(b)' = Peer(b)
        /\ b \in watched' <=> b \in watched
        /\ b \in banned' <=> b \in banned
        /\ pending'[b] = pending[b]
        /\ b \in DOMAIN browse' <=> b \in DOMAIN browse
        /\ b \in DOMAIN browse => browse'[b] = browse[b]
        /\ \A i \in DOMAIN calls' : calls'[i][2] # b]_vars

\* bob's listing showed private folders while alice's was outstanding: bob
\* is flagged, blocked and notified; alice is still watched and waiting
C20_Witness ==
    /\ last[1] = "listing_response" /\ last[2] = "bob"
    /\ Peer("bob").state = HasPrivateShares
    /\ Peer("bob").sent_message
    /\ Count(calls, Block("bob")) = 1
    /\ Sends(calls, "bob") # <<>>
    /\ Peer("alice").state = RequestedShares
    /\ Peer("alice").requested_shares = 0
    /\ now = Cooldown
    /\ "alice" \in watched /\ "alice" \notin banned
    /\ pending["alice"] = 1

====
